---- MODULE Spec2Model ----
(***************************************************************************)
(* Model of the placeholder-preserving translator (src/translator.py) and  *)
(* of the batch evaluator (src/evaluator.py).                              *)
(*                                                                         *)
(* A Python str is a sequence of one-character strings. The two marker     *)
(* code points U+276E and U+276F of the source are written "<" and ">";    *)
(* neither occurs in any input text of the model.                          *)
(***************************************************************************)
EXTENDS Integers, Sequences, FiniteSets, TLC

VARIABLES
    pc,                 \* position of the current translate_with_* call
    entry,              \* entry point called: "none", "llm" or "google"
    text,               \* argument text
    target_language,    \* argument target_language
    text_with_markers,  \* local of translate_with_*: the masked text
    placeholders,       \* local of translate_with_*: the extracted literals
    resp1,              \* backend's answer to the first request
    resp2,              \* backend's answer to the retry request
    result1,            \* local result after the first restoration
    ret,                \* value returned to the caller
    raised,             \* exception that reached the caller ("none" if none)
    llm_requests,       \* chat.completions.create calls issued by this call
    google_requests,    \* google_translator.translate calls issued by this call
    epc,                \* position of evaluate_dataset
    total_rows,         \* len(df)
    has_columns,        \* whether df has the columns 'english' and 'label'
    eval_language,      \* argument target_language of evaluate_dataset
    idx,                \* rows already visited
    progress_callback,  \* whether a progress observer is registered
    llm_translation,    \* loop local of evaluate_dataset
    google_translation, \* loop local of evaluate_dataset
    metrics_list,       \* per-row metrics of the scored rows
    row_log,            \* history: what happened at each visited row
    eval_out            \* outcome of evaluate_dataset

tvars == <<pc, entry, text, target_language, text_with_markers, placeholders,
           resp1, resp2, result1, ret, raised, llm_requests, google_requests>>
evars == <<epc, total_rows, has_columns, eval_language, idx, progress_callback,
           llm_translation, google_translation, metrics_list, row_log, eval_out>>
vars == <<tvars, evars>>

----------------------------------------------------------------------------
(* Bounds of the model *)

\* longest input text, counted in pieces of TextPieces
MaxTextPieces == 2
\* longest free-form backend response, counted in pieces of RespPieces
MaxRespPieces == 1
\* most rows of a dataset
MaxRows == 2

----------------------------------------------------------------------------
(* Python values *)

None == [some |-> FALSE, val |-> <<>>]
Some(s) == [some |-> TRUE, val |-> s]

\* truth value of an Optional[str] in an `if`
Truthy(v) == v.some /\ v.val # <<>>

LQ == "<"
RQ == ">"

DigitChars == <<"0", "1", "2", "3", "4", "5", "6", "7", "8", "9">>

IsDigit(c) == \E d \in 1..10 : DigitChars[d] = c

DigitVal(c) == (CHOOSE d \in 1..10 : DigitChars[d] = c) - 1

LowerOf ==
    ("A" :> "a") @@ ("B" :> "b") @@ ("C" :> "c") @@ ("D" :> "d") @@
    ("E" :> "e") @@ ("F" :> "f") @@ ("G" :> "g") @@ ("H" :> "h") @@
    ("I" :> "i") @@ ("J" :> "j") @@ ("K" :> "k") @@ ("L" :> "l") @@
    ("M" :> "m") @@ ("N" :> "n") @@ ("O" :> "o") @@ ("P" :> "p") @@
    ("Q" :> "q") @@ ("R" :> "r") @@ ("S" :> "s") @@ ("T" :> "t") @@
    ("U" :> "u") @@ ("V" :> "v") @@ ("W" :> "w") @@ ("X" :> "x") @@
    ("Y" :> "y") @@ ("Z" :> "z")

\* case folding of re.IGNORECASE
FoldCase(c) == IF c \in DOMAIN LowerOf THEN LowerOf[c] ELSE c

CharEq(a, b, ignorecase) ==
    IF ignorecase THEN FoldCase(a) = FoldCase(b) ELSE a = b

\* the literal lit occurs in s at position i
MatchAt(s, i, lit, ignorecase) ==
    /\ i + Len(lit) - 1 <= Len(s)
    /\ \A k \in 1..Len(lit) : CharEq(s[i + k - 1], lit[k], ignorecase)

\* sub in s
Contains(s, sub) ==
    \E i \in 1..(Len(s) - Len(sub) + 1) : MatchAt(s, i, sub, FALSE)

RECURSIVE ReplaceFrom(_, _, _, _)
ReplaceFrom(s, i, old, new) ==
    IF i > Len(s) THEN <<>>
    ELSE IF MatchAt(s, i, old, FALSE)
         THEN new \o ReplaceFrom(s, i + Len(old), old, new)
         ELSE <<s[i]>> \o ReplaceFrom(s, i + 1, old, new)

\* s.replace(old, new) for a non-empty old: every occurrence, left to right
StrReplace(s, old, new) == ReplaceFrom(s, 1, old, new)

Whitespace == {" ", "\t", "\n", "\r"}

RECURSIVE LStrip(_)
LStrip(s) ==
    IF s # <<>> /\ Head(s) \in Whitespace THEN LStrip(Tail(s)) ELSE s

RECURSIVE RStrip(_)
RStrip(s) ==
    IF s # <<>> /\ s[Len(s)] \in Whitespace
    THEN RStrip(SubSeq(s, 1, Len(s) - 1))
    ELSE s

\* s.strip()
Strip(s) == RStrip(LStrip(s))

RECURSIVE IntToStr(_)
\* the {i} of an f-string
IntToStr(n) ==
    IF n < 10 THEN <<DigitChars[n + 1]>>
    ELSE IntToStr(n \div 10) \o <<DigitChars[(n % 10) + 1]>>

RECURSIVE StrToInt(_)
\* int(match.group(1)) on a run of digits
StrToInt(ds) ==
    IF ds = <<>> THEN 0
    ELSE 10 * StrToInt(SubSeq(ds, 1, Len(ds) - 1)) + DigitVal(ds[Len(ds)])

RECURSIVE Flatten(_)
Flatten(ss) == IF ss = <<>> THEN <<>> ELSE Head(ss) \o Flatten(Tail(ss))

RECURSIVE SeqsUpTo(_, _)
\* the sequences over S of length at most n
SeqsUpTo(S, n) ==
    IF n = 0 THEN {<<>>}
    ELSE LET shorter == SeqsUpTo(S, n - 1)
         IN  shorter \cup {Append(q, x) : q \in shorter, x \in S}

----------------------------------------------------------------------------
(* Regular expressions of the form  prefix (\d+) suffix *)

Pattern(pre, suf) == [pre |-> pre, suf |-> suf]

RECURSIVE DigitRun(_, _)
\* length of the run of digits of s that starts at position i
DigitRun(s, i) ==
    IF i <= Len(s) /\ IsDigit(s[i]) THEN 1 + DigitRun(s, i + 1) ELSE 0

\* length of the match of pat at position i of s, 0 when there is none; no
\* suffix starts with a digit, so the greedy \d+ takes the whole run
MatchLen(s, i, pat, ignorecase) ==
    IF ~MatchAt(s, i, pat.pre, ignorecase) THEN 0
    ELSE LET n == DigitRun(s, i + Len(pat.pre))
         IN  IF n > 0 /\ MatchAt(s, i + Len(pat.pre) + n, pat.suf, ignorecase)
             THEN Len(pat.pre) + n + Len(pat.suf)
             ELSE 0

RECURSIVE FindFrom(_, _, _, _)
FindFrom(s, i, pat, ignorecase) ==
    IF i > Len(s) THEN <<>>
    ELSE LET n == MatchLen(s, i, pat, ignorecase)
         IN  IF n > 0
             THEN <<[group0 |-> SubSeq(s, i, i + n - 1),
                     group1 |-> SubSeq(s, i + Len(pat.pre),
                                       i + n - Len(pat.suf) - 1)]>>
                  \o FindFrom(s, i + n, pat, ignorecase)
             ELSE FindFrom(s, i + 1, pat, ignorecase)

\* list(re.finditer(pat, s, flags)): the non-overlapping matches, left to right
FindIter(pat, s, ignorecase) == FindFrom(s, 1, pat, ignorecase)

\* f"<<PH{i}>>"
Marker(i) == <<LQ, LQ, "P", "H">> \o IntToStr(i) \o <<RQ, RQ>>

RECURSIVE SubFrom(_, _, _)
SubFrom(s, i, pat) ==
    IF i > Len(s) THEN <<>>
    ELSE LET n == MatchLen(s, i, pat, FALSE)
         IN  IF n > 0
             THEN <<LQ, LQ, "P", "H">>
                  \o SubSeq(s, i + Len(pat.pre), i + n - Len(pat.suf) - 1)
                  \o <<RQ, RQ>> \o SubFrom(s, i + n, pat)
             ELSE <<s[i]>> \o SubFrom(s, i + 1, pat)

\* re.sub(pat, r'<<PH\1>>', s)
ReSubMarker(pat, s) == SubFrom(s, 1, pat)

----------------------------------------------------------------------------
(* TranslationService._preserve_placeholders *)

\* position of the first "]" of s at or after i, 0 when there is none
RECURSIVE FirstClose(_, _)
FirstClose(s, i) ==
    IF i > Len(s) THEN 0
    ELSE IF s[i] = "]" THEN i ELSE FirstClose(s, i + 1)

RECURSIVE BracketsFrom(_, _)
BracketsFrom(s, i) ==
    IF i > Len(s) THEN <<>>
    ELSE IF s[i] = "["
         THEN LET j == FirstClose(s, i + 1)
              IN  IF j >= i + 2
                  THEN <<SubSeq(s, i, j)>> \o BracketsFrom(s, j + 1)
                  ELSE BracketsFrom(s, i + 1)
         ELSE BracketsFrom(s, i + 1)

\* [m.group(0) for m in re.finditer(r'\[([^\]]+)\]', text)]
BracketMatches(s) == BracketsFrom(s, 1)

RECURSIVE MaskLoop(_, _, _)
\* the loop of lines 49-54 from its i-th iteration on (i is 1-based here)
MaskLoop(processed_text, matches, i) ==
    IF i > Len(matches) THEN processed_text
    ELSE MaskLoop(StrReplace(processed_text, matches[i], Marker(i - 1)),
                  matches, i + 1)

PreservePlaceholders(s) ==
    LET matches == BracketMatches(s)
    IN  [text |-> MaskLoop(s, matches, 1), placeholders |-> matches]

----------------------------------------------------------------------------
(* TranslationService._restore_placeholders *)

JapaneseRepair(s) ==
    ReSubMarker(Pattern(<<"P", "H">>, <<RQ, RQ>>),
                ReSubMarker(Pattern(<<"p", "h">>, <<RQ, RQ>>), s))

placeholder_patterns == <<
    Pattern(<<LQ, LQ, "P", "H">>, <<RQ, RQ>>),
    Pattern(<<"_", "_", "P", "L", "A", "C", "E", "H", "O", "L", "D", "E", "R", "_">>,
            <<"_", "_">>),
    Pattern(<<"P", "L", "A", "C", "E", "H", "O", "L", "D", "E", "R", "_">>, <<>>),
    Pattern(<<"P", "l", "a", "c", "e", "H", "o", "l", "d", "e", "r", "_">>, <<>>),
    Pattern(<<"P", "l", "a", "c", "e", "h", "o", "l", "d", "e", "r", "_">>, <<>>),
    Pattern(<<"p", "l", "a", "c", "e", "h", "o", "l", "d", "e", "r", "_">>, <<>>),
    Pattern(<<"P", "H">>, <<>>),
    Pattern(<<"p", "h">>, <<>>) >>

RECURSIVE RestoreMarkers(_, _, _)
\* the loop of lines 84-87 from its i-th iteration on (i is 1-based here)
RestoreMarkers(result, phs, i) ==
    IF i > Len(phs) THEN result
    ELSE RestoreMarkers(
             IF Contains(result, Marker(i - 1))
             THEN StrReplace(result, Marker(i - 1), phs[i])
             ELSE result,
             phs, i + 1)

RECURSIVE ApplyMatches(_, _, _, _)
\* the loop of lines 92-98 over the matches found before it started
ApplyMatches(result, matches, k, phs) ==
    IF k > Len(matches) THEN result
    ELSE LET index == StrToInt(matches[k].group1)
         IN  ApplyMatches(
                 IF 0 <= index /\ index < Len(phs)
                 THEN StrReplace(result, matches[k].group0, phs[index + 1])
                 ELSE result,
                 matches, k + 1, phs)

RECURSIVE SweepPatterns(_, _, _)
\* the loop of lines 90-98 from its p-th pattern on
SweepPatterns(result, p, phs) ==
    IF p > Len(placeholder_patterns) THEN result
    ELSE SweepPatterns(
             ApplyMatches(result,
                          FindIter(placeholder_patterns[p], result, TRUE),
                          1, phs),
             p + 1, phs)

RestorePlaceholders(s, phs, is_google, lang) ==
    LET repaired == IF is_google /\ lang = "Japanese"
                    THEN JapaneseRepair(s) ELSE s
    IN  SweepPatterns(RestoreMarkers(repaired, phs, 1), 1, phs)

----------------------------------------------------------------------------
(* Inputs of the model *)

TextPieces == {<<"a">>, <<"[", "a", "]">>, <<"[", "P", "H", "1", "]">>}

\* the texts handed to translate_with_llm and translate_with_google
Texts == {Flatten(q) : q \in SeqsUpTo(TextPieces, MaxTextPieces)}

supported_languages ==
    ("Spanish" :> "es") @@ ("French" :> "fr") @@ ("German" :> "de") @@
    ("Japanese" :> "ja") @@ ("Arabic" :> "ar") @@ ("Hindi" :> "hi") @@
    ("Portuguese" :> "pt") @@ ("Hungarian" :> "hu")

\* the target languages asked for; "Klingon" has no language code
Languages == {"Hungarian", "Japanese", "Klingon"}

RespPieces ==
    {<<"x">>, <<" ">>, Marker(0), Marker(1),
     <<"P", "H", "0", RQ, RQ>>, <<"p", "h", "0", RQ, RQ>>}

FreeResponses == {Flatten(q) : q \in SeqsUpTo(RespPieces, MaxRespPieces)}

RECURSIVE SplitFrom(_, _, _)
SplitFrom(s, i, cur) ==
    IF i > Len(s) THEN (IF cur = <<>> THEN <<>> ELSE <<cur>>)
    ELSE LET n == MatchLen(s, i, placeholder_patterns[1], FALSE)
         IN  IF n > 0
             THEN (IF cur = <<>> THEN <<>> ELSE <<cur>>)
                  \o <<SubSeq(s, i, i + n - 1)>> \o SplitFrom(s, i + n, <<>>)
             ELSE SplitFrom(s, i + 1, Append(cur, s[i]))

\* the pieces of a masked text: its markers and the stretches between them
MaskedPieces(s) == SplitFrom(s, 1, <<>>)

PieceOrders(n) ==
    {f \in [1..n -> 1..n] : \A a, b \in 1..n : f[a] = f[b] => a = b}

\* the orders in which a backend can give the pieces of the masked text back
PermutedPieces(s) ==
    LET ps == MaskedPieces(s)
    IN  {[k \in 1..Len(ps) |-> ps[f[k]]] : f \in PieceOrders(Len(ps))}

Failure == [err |-> TRUE, content |-> <<>>]
Answer(c) == [err |-> FALSE, content |-> c]
NoAnswer == [err |-> FALSE, content |-> <<"-">>]

\* what a backend can do with a request for the masked text s: raise, or answer
BackendAnswers(s) ==
    {Failure} \cup
    {Answer(c) : c \in FreeResponses \cup {Flatten(q) : q \in PermutedPieces(s)}}

----------------------------------------------------------------------------
(* TranslationService.translate_with_llm, translate_with_google *)

\* a verification that finds nothing missing
MissingPlaceholders_none(result, phs) == <<>>

\* lines 132-135 and 191-194: the literals that are not in the result
MissingPlaceholders(result, phs) ==
    SelectSeq(phs, LAMBDA p : ~Contains(result, p))

\* a handler that lets the error through
LLMExcept_reraise == [ret |-> None, raised |-> "Exception"]

\* lines 156-158
LLMExcept == [ret |-> None, raised |-> "none"]

\* lines 165-167
AsyncGoogleExcept == None

\* lines 201-203
GoogleExcept == [ret |-> None, raised |-> "none"]

\* lines 127-129 and 152-153
LLMRestore(r, phs) == RestorePlaceholders(Strip(r.content), phs, FALSE, "None")

\* lines 187-200: what translate_with_google returns for the backend's result
GoogleFinish(result, phs, lang) ==
    IF Truthy(result)
    THEN Some(RestorePlaceholders(result.val, phs, TRUE, lang))
    ELSE None

LLMCall ==
    /\ pc = "idle"
    /\ \E t \in Texts, lang \in Languages :
         LET p == PreservePlaceholders(t)
         IN  /\ text' = t
             /\ target_language' = lang
             /\ text_with_markers' = p.text
             /\ placeholders' = p.placeholders
    /\ entry' = "llm"
    /\ pc' = "llm_first"
    /\ UNCHANGED <<resp1, resp2, result1, ret, raised, llm_requests,
                   google_requests, evars>>

LLMFirstRequest ==
    /\ pc = "llm_first"
    /\ llm_requests' = llm_requests + 1
    /\ \E r \in BackendAnswers(text_with_markers) :
         /\ resp1' = r
         /\ IF r.err
            THEN /\ ret' = LLMExcept.ret
                 /\ raised' = LLMExcept.raised
                 /\ pc' = "returned"
                 /\ UNCHANGED result1
            ELSE LET result == LLMRestore(r, placeholders)
                 IN  /\ result1' = Some(result)
                     /\ raised' = raised
                     /\ IF MissingPlaceholders(result, placeholders) # <<>>
                        THEN pc' = "llm_retry" /\ UNCHANGED ret
                        ELSE pc' = "returned" /\ ret' = Some(result)
    /\ UNCHANGED <<entry, text, target_language, text_with_markers,
                   placeholders, resp2, google_requests, evars>>

\* a retry whose failure falls back to the restored first attempt
LLMRetryRequest_keepfirst ==
    /\ pc = "llm_retry"
    /\ llm_requests' = llm_requests + 1
    /\ \E r \in BackendAnswers(text_with_markers) :
         /\ resp2' = r
         /\ IF r.err
            THEN ret' = result1 /\ raised' = raised
            ELSE ret' = Some(LLMRestore(r, placeholders)) /\ raised' = raised
    /\ pc' = "returned"
    /\ UNCHANGED <<entry, text, target_language, text_with_markers,
                   placeholders, resp1, result1, google_requests, evars>>

LLMRetryRequest ==
    /\ pc = "llm_retry"
    /\ llm_requests' = llm_requests + 1
    /\ \E r \in BackendAnswers(text_with_markers) :
         /\ resp2' = r
         /\ IF r.err
            THEN ret' = LLMExcept.ret /\ raised' = LLMExcept.raised
            ELSE ret' = Some(LLMRestore(r, placeholders)) /\ raised' = raised
    /\ pc' = "returned"
    /\ UNCHANGED <<entry, text, target_language, text_with_markers,
                   placeholders, resp1, result1, google_requests, evars>>

\* lines 171-177 for a language that has a code
GoogleCall ==
    /\ pc = "idle"
    /\ \E t \in Texts, lang \in Languages :
         LET p == PreservePlaceholders(t)
         IN  /\ lang \in DOMAIN supported_languages
             /\ text' = t
             /\ target_language' = lang
             /\ text_with_markers' = p.text
             /\ placeholders' = p.placeholders
    /\ entry' = "google"
    /\ pc' = "google_request"
    /\ UNCHANGED <<resp1, resp2, result1, ret, raised, llm_requests,
                   google_requests, evars>>

\* lines 171-177 for a language that has none: the ValueError of line 177
\* goes to the handler of line 201
GoogleCallUnsupported ==
    /\ pc = "idle"
    /\ \E t \in Texts, lang \in Languages :
         LET p == PreservePlaceholders(t)
         IN  /\ lang \notin DOMAIN supported_languages
             /\ text' = t
             /\ target_language' = lang
             /\ text_with_markers' = p.text
             /\ placeholders' = p.placeholders
    /\ entry' = "google"
    /\ ret' = GoogleExcept.ret
    /\ raised' = GoogleExcept.raised
    /\ pc' = "returned"
    /\ UNCHANGED <<resp1, resp2, result1, llm_requests, google_requests, evars>>

GoogleRequest ==
    /\ pc = "google_request"
    /\ google_requests' = google_requests + 1
    /\ \E r \in BackendAnswers(text_with_markers) :
         /\ resp1' = r
         /\ ret' = GoogleFinish(IF r.err THEN AsyncGoogleExcept
                                ELSE Some(r.content),
                                placeholders, target_language)
    /\ pc' = "returned"
    /\ UNCHANGED <<entry, text, target_language, text_with_markers,
                   placeholders, resp2, result1, raised, llm_requests, evars>>

----------------------------------------------------------------------------
(* The two entry points as functions of the backend's answers *)

\* translate_with_llm(t, lang) when the backend answers r1, then r2
TranslateWithLLM(t, r1, r2) ==
    LET p == PreservePlaceholders(t)
    IN  IF r1.err THEN LLMExcept.ret
        ELSE LET result == LLMRestore(r1, p.placeholders)
             IN  IF MissingPlaceholders(result, p.placeholders) # <<>>
                 THEN IF r2.err THEN LLMExcept.ret
                      ELSE Some(LLMRestore(r2, p.placeholders))
                 ELSE Some(result)

\* translate_with_google(t, lang) when the backend answers g
TranslateWithGoogle(t, lang, g) ==
    LET p == PreservePlaceholders(t)
    IN  IF lang \notin DOMAIN supported_languages THEN GoogleExcept.ret
        ELSE GoogleFinish(IF g.err THEN AsyncGoogleExcept ELSE Some(g.content),
                          p.placeholders, lang)

----------------------------------------------------------------------------
(* TranslationEvaluator *)

\* the source texts of the rows of a dataset
EvalTexts == {<<"a">>, <<"[", "a", "]">>}

\* target languages evaluate_dataset is called with
EvalLanguages == {"Hungarian", "Klingon"}

\* what a backend does with a row's request: raise, give the masked text
\* back, or answer nothing
EvalAnswers(s) == {Failure, Answer(s), Answer(<<>>)}

\* what nltk does with a (reference, candidate) pair: raise, or score it 1
ScoreError == [err |-> TRUE, val |-> 0]
Scored(v) == [err |-> FALSE, val |-> v]

MetricKeys == {"llm_meteor", "google_meteor", "llm_bleu", "google_bleu"}

\* what nltk does with the four pairs of a row: it scores all of them, it
\* raises on all of them, or it raises on the pairs of one candidate
RowOutcomes ==
    {[k \in MetricKeys |-> Scored(1)],
     [k \in MetricKeys |-> ScoreError],
     [k \in MetricKeys |->
         IF k \in {"llm_meteor", "llm_bleu"} THEN Scored(1) ELSE ScoreError]}

\* calculate_meteor_score and calculate_bleu_score: 0.0 when nltk raises
CalculateScore(outcome) == IF outcome.err THEN 0 ELSE outcome.val

\* evaluate_translation, given what nltk does with each of the four pairs
EvaluateTranslation(outcomes) ==
    [k \in MetricKeys |-> CalculateScore(outcomes[k])]

RECURSIVE GCD(_, _)
GCD(a, b) == IF b = 0 THEN a ELSE GCD(b, a % b)

\* the number n/d
Frac(n, d) == LET g == GCD(n, d) IN [num |-> n \div g, den |-> d \div g]

NaN == [num |-> 0, den |-> 0]

RECURSIVE SumSeq(_)
SumSeq(xs) == IF xs = <<>> THEN 0 ELSE Head(xs) + SumSeq(Tail(xs))

\* np.mean(xs): nan for an empty list
NpMean(xs) == IF xs = <<>> THEN NaN ELSE Frac(SumSeq(xs), Len(xs))

\* np.std(xs), given by its square, the population variance: nan for an
\* empty list
NpStd(xs) ==
    IF xs = <<>> THEN NaN
    ELSE Frac(Len(xs) * SumSeq([k \in 1..Len(xs) |-> xs[k] * xs[k]])
                  - SumSeq(xs) * SumSeq(xs),
              Len(xs) * Len(xs))

\* [m[key] for m in metrics_list]
Column(ms, key) == [k \in 1..Len(ms) |-> ms[k][key]]

\* lines 100-105 and 113-118
MeanMetrics(ms) == [k \in MetricKeys |-> NpMean(Column(ms, k))]

\* lines 121-126
StdMetrics(ms) == [k \in MetricKeys |-> NpStd(Column(ms, k))]

NotReturned == [returned |-> FALSE, avg |-> <<>>, std |-> <<>>]

\* lines 94: the row is scored
RowIsScored(llm, google) == Truthy(llm) /\ Truthy(google)

NoCall == [called |-> FALSE, current |-> 0, total |-> 0, metrics |-> <<>>]

\* a progress call that passes the metrics of the current row alone
ProgressCall_current(registered, ms, i, total) ==
    IF registered /\ ms # <<>>
    THEN [called |-> TRUE, current |-> i + 1, total |-> total,
          metrics |-> MeanMetrics(<<ms[Len(ms)]>>)]
    ELSE NoCall

\* lines 99-106: the call of progress_callback after a scored row, if any
ProgressCall(registered, ms, i, total) ==
    IF registered /\ ms # <<>>
    THEN [called |-> TRUE, current |-> i + 1, total |-> total,
          metrics |-> MeanMetrics(ms)]
    ELSE NoCall

\* lines 80-83
EvalStart ==
    /\ epc = "idle"
    /\ \E n \in 0..MaxRows : total_rows' = n
    /\ \E c \in BOOLEAN : has_columns' = c
    /\ \E lang \in EvalLanguages : eval_language' = lang
    /\ \E cb \in BOOLEAN : progress_callback' = cb
    /\ metrics_list' = <<>>
    /\ epc' = "loop"
    /\ UNCHANGED <<idx, llm_translation, google_translation, row_log,
                   eval_out, tvars>>

\* lines 85-110 for a row whose columns are read: both translations, and for
\* a scored row the metrics and the progress call, which may raise
EvalRow ==
    /\ epc = "loop"
    /\ idx < total_rows
    /\ has_columns
    /\ \E t \in EvalTexts :
       \E r1, r2, g \in EvalAnswers(PreservePlaceholders(t).text) :
         LET llm == TranslateWithLLM(t, r1, r2)
             google == TranslateWithGoogle(t, eval_language, g)
             scored == RowIsScored(llm, google)
         IN  \E outcomes \in IF scored THEN RowOutcomes
                             ELSE {[k \in MetricKeys |-> ScoreError]} :
               LET ms == IF scored
                         THEN Append(metrics_list, EvaluateTranslation(outcomes))
                         ELSE metrics_list
                   call == IF scored
                           THEN ProgressCall(progress_callback, ms, idx, total_rows)
                           ELSE NoCall
               IN  \E cb_raises \in IF call.called THEN BOOLEAN ELSE {FALSE} :
                     /\ llm_translation' = llm
                     /\ google_translation' = google
                     /\ metrics_list' = ms
                     /\ row_log' = Append(row_log,
                            [row |-> idx, read |-> TRUE,
                             llm_returned |-> llm # None,
                             google_returned |-> google # None,
                             scored |-> Len(ms) > Len(metrics_list),
                             score_errors |->
                                 scored /\ \E k \in MetricKeys : outcomes[k].err,
                             call |-> call,
                             raised |-> cb_raises])
    /\ idx' = idx + 1
    /\ UNCHANGED <<epc, total_rows, has_columns, eval_language,
                   progress_callback, eval_out, tvars>>

\* a handler that ends the loop, and the call, at the first row that raises
EvalRowRaises_abort ==
    /\ epc = "loop"
    /\ idx < total_rows
    /\ ~has_columns
    /\ row_log' = Append(row_log,
           [row |-> idx, read |-> FALSE, llm_returned |-> FALSE,
            google_returned |-> FALSE, scored |-> FALSE,
            score_errors |-> FALSE, call |-> NoCall, raised |-> TRUE])
    /\ idx' = idx + 1
    /\ epc' = "done"
    /\ UNCHANGED <<total_rows, has_columns, eval_language,
                   progress_callback, llm_translation, google_translation,
                   metrics_list, eval_out, tvars>>

\* lines 85-110 for a row of a dataset without the columns: the KeyError of
\* line 87 or 88 goes to the handler of line 108
EvalRowRaises ==
    /\ epc = "loop"
    /\ idx < total_rows
    /\ ~has_columns
    /\ row_log' = Append(row_log,
           [row |-> idx, read |-> FALSE, llm_returned |-> FALSE,
            google_returned |-> FALSE, scored |-> FALSE,
            score_errors |-> FALSE, call |-> NoCall, raised |-> TRUE])
    /\ idx' = idx + 1
    /\ UNCHANGED <<epc, total_rows, has_columns, eval_language,
                   progress_callback, llm_translation, google_translation,
                   metrics_list, eval_out, tvars>>

\* lines 112-131
EvalFinish ==
    /\ epc = "loop"
    /\ idx = total_rows
    /\ eval_out' = [returned |-> TRUE, avg |-> MeanMetrics(metrics_list),
                    std |-> StdMetrics(metrics_list)]
    /\ epc' = "done"
    /\ UNCHANGED <<total_rows, has_columns, eval_language, idx,
                   progress_callback, llm_translation, google_translation,
                   metrics_list, row_log, tvars>>

----------------------------------------------------------------------------
(* Specification of one call of an entry point of TranslationService *)

Init ==
    /\ pc = "idle"
    /\ entry = "none"
    /\ text = <<>>
    /\ target_language = "None"
    /\ text_with_markers = <<>>
    /\ placeholders = <<>>
    /\ resp1 = NoAnswer
    /\ resp2 = NoAnswer
    /\ result1 = None
    /\ ret = None
    /\ raised = "none"
    /\ llm_requests = 0
    /\ google_requests = 0
    /\ epc = "idle"
    /\ total_rows = 0
    /\ has_columns = TRUE
    /\ eval_language = "Hungarian"
    /\ idx = 0
    /\ progress_callback = FALSE
    /\ llm_translation = None
    /\ google_translation = None
    /\ metrics_list = <<>>
    /\ row_log = <<>>
    /\ eval_out = NotReturned

Next ==
    \/ LLMCall
    \/ LLMFirstRequest
    \/ LLMRetryRequest
    \/ GoogleCall
    \/ GoogleCallUnsupported
    \/ GoogleRequest

Spec == Init /\ [][Next]_vars

(* Specification of one call of TranslationEvaluator.evaluate_dataset *)

NextEval ==
    \/ EvalStart
    \/ EvalRow
    \/ EvalRowRaises
    \/ EvalFinish

SpecEval == Init /\ [][NextEval]_vars

----------------------------------------------------------------------------
(* Properties of TranslationService *)

\* the first request has been answered
FirstAnswered == pc \in {"llm_retry", "returned"} /\ resp1 # NoAnswer

\* the token a piece of a masked text stands for, the piece itself if it is
\* no marker of an extracted token
PieceToken(piece, phs) ==
    IF \E i \in 1..Len(phs) : piece = Marker(i - 1)
    THEN phs[CHOOSE i \in 1..Len(phs) : piece = Marker(i - 1)]
    ELSE piece

\* the markers of the masked text s all occur in r
MarkersIntact(s, phs, r) ==
    \A i \in 1..Len(phs) :
        Contains(s, Marker(i - 1)) => Contains(r, Marker(i - 1))

\* C1: round trip. When the backend gives the masked text back unchanged,
\* the default restoration of it is the original text.
C1_RoundTrip ==
    (entry = "llm" /\ FirstAnswered /\ ~resp1.err
        /\ resp1.content = text_with_markers)
    => result1 = Some(text)

\* C2: positional fidelity. When the backend gives the pieces of the masked
\* text back in any order, markers intact, the restoration is those pieces in
\* that order with each marker of index i replaced by the i-th token.
C2_PositionalFidelity ==
    (entry = "llm" /\ FirstAnswered /\ ~resp1.err)
    => \A q \in PermutedPieces(text_with_markers) :
           resp1.content = Flatten(q)
           => result1 = Some(Flatten([k \in 1..Len(q) |->
                                         PieceToken(q[k], placeholders)]))

\* some original literal is absent from the restored first result
FirstResultLacksLiteral ==
    /\ result1.some
    /\ \E i \in 1..Len(placeholders) : ~Contains(result1.val, placeholders[i])

\* C3: retry bound. A call of translate_with_llm issues at most two requests
\* and none to the other backend; the second is issued exactly when the first
\* succeeded and a literal is absent from the restored first result; the
\* restored second answer is returned as it is; translate_with_google issues
\* at most one request.
C3_RetryBound ==
    /\ llm_requests <= 2
    /\ google_requests <= 1
    /\ entry = "google" => llm_requests = 0
    /\ entry = "llm" => google_requests = 0
    /\ (entry = "llm" /\ FirstAnswered)
       => /\ (pc = "llm_retry" \/ llm_requests = 2)
             <=> (~resp1.err /\ FirstResultLacksLiteral)
          /\ pc = "llm_retry" => llm_requests = 1
    /\ (entry = "llm" /\ pc = "returned" /\ llm_requests = 2 /\ ~resp2.err)
       => ret = Some(RestorePlaceholders(Strip(resp2.content), placeholders,
                                         FALSE, "None"))

\* a retry was made and its answer, still lacking a literal, was returned
C3_Witness ==
    /\ entry = "llm" /\ pc = "returned" /\ llm_requests = 2
    /\ ~resp1.err /\ ~resp2.err /\ ret.some
    /\ \E i \in 1..Len(placeholders) : ~Contains(ret.val, placeholders[i])

\* C4: retry outcome. When the first answer of the LLM backend lacks a marker
\* and the second has every marker intact, the returned string contains
\* every original placeholder literal.
C4_RetryOutcome ==
    (/\ entry = "llm" /\ pc = "returned" /\ llm_requests = 2
     /\ ~resp1.err /\ ~resp2.err
     /\ ~MarkersIntact(text_with_markers, placeholders, resp1.content)
     /\ MarkersIntact(text_with_markers, placeholders, resp2.content))
    => /\ ret.some
       /\ \A i \in 1..Len(placeholders) : Contains(ret.val, placeholders[i])

\* C5: failure semantics. An error raised by a backend request, first or
\* retry, makes the call return None, and no exception reaches the caller.
C5_FailureSemantics ==
    /\ raised = "none"
    /\ (pc = "returned" /\ (resp1.err \/ resp2.err)) => ret = None

\* the retry request failed after a first answer had been restored
C5_Witness ==
    /\ entry = "llm" /\ pc = "returned" /\ llm_requests = 2
    /\ ~resp1.err /\ result1.some /\ resp2.err

\* C6: missing language. A call for a target language without a language
\* code issues no backend request and ends in a failure the caller can tell
\* from the outcome of a transport failure.
C6_MissingLanguage ==
    (entry # "none" /\ target_language \notin DOMAIN supported_languages)
    => /\ llm_requests = 0
       /\ google_requests = 0
       /\ pc = "returned"
          => [ret |-> ret, raised |-> raised] \notin {LLMExcept, GoogleExcept}

\* C7: result shape. A returned value is None or a non-empty string.
C7_ResultShape ==
    pc = "returned" => (ret = None \/ (ret.some /\ ret.val # <<>>))

\* C8: no partially-masked result. No returned string contains a marker.
C8_NoMarkerReturned ==
    (pc = "returned" /\ ret.some)
    => FindIter(placeholder_patterns[1], ret.val, FALSE) = <<>>

----------------------------------------------------------------------------
(* Properties of TranslationEvaluator.evaluate_dataset *)

\* C9: batch skip. A visited row added an entry to metrics_list if and only
\* if both translate_with_llm and translate_with_google returned a result
\* for it, and metrics_list has one entry for each such row.
C9_BatchSkip ==
    /\ \A k \in 1..Len(row_log) :
         row_log[k].scored
         <=> (row_log[k].llm_returned /\ row_log[k].google_returned)
    /\ Len(metrics_list)
         = Cardinality({k \in 1..Len(row_log) :
                           row_log[k].llm_returned
                           /\ row_log[k].google_returned})

\* C10: empty aggregate. When no row was scored, evaluate_dataset does not
\* return an aggregate of NaN means and standard deviations.
C10_EmptyAggregate ==
    (epc = "done" /\ metrics_list = <<>>)
    => ~(/\ eval_out.returned
         /\ \A k \in MetricKeys : eval_out.avg[k] = NaN /\ eval_out.std[k] = NaN)

\* the number of scored rows among the first k visited rows
ScoredUpTo(k) == Cardinality({j \in 1..k : row_log[j].scored})

\* the values of metric key over the rows scored among the first k visited
ScoresUpTo(k, key) == [j \in 1..ScoredUpTo(k) |-> metrics_list[j][key]]

\* C11: progress emission. With a progress observer registered, the observer
\* is called at a visited row if and only if the row was scored, and the call
\* passes the row's 1-based index, the total row count and, for each metric,
\* the mean over all rows scored so far.
C11_ProgressEmission ==
    progress_callback
    => \A k \in 1..Len(row_log) :
         /\ row_log[k].call.called <=> row_log[k].scored
         /\ row_log[k].call.called
            => /\ row_log[k].call.current = k
               /\ row_log[k].call.total = total_rows
               /\ \A key \in MetricKeys :
                    LET m == row_log[k].call.metrics[key]
                        xs == ScoresUpTo(k, key)
                    IN  /\ m.den > 0
                        /\ m.num * Len(xs) = SumSeq(xs) * m.den

\* the observer was called at the second of two scored rows, with a mean that
\* is not the second row's own score
C11_Witness ==
    /\ progress_callback
    /\ Len(row_log) = 2
    /\ row_log[1].call.called /\ row_log[2].call.called
    /\ row_log[2].call.current = 2
    /\ row_log[2].call.metrics["llm_meteor"] = [num |-> 1, den |-> 2]
    /\ metrics_list[2]["llm_meteor"] = 0

\* C12: batch continuation. evaluate_dataset visits the rows once each, in
\* order: whatever happened at the rows visited so far (an absent translation,
\* a scoring failure, scored 0.0, or an exception, the observer's included),
\* the next row can be processed, after the last one the final metrics are
\* computed, and the call returns only after all rows.
C12_BatchContinuation ==
    /\ Len(row_log) = idx
    /\ idx <= total_rows
    /\ \A k \in 1..Len(row_log) :
         /\ row_log[k].row = k - 1
         /\ row_log[k].score_errors
            => /\ row_log[k].scored
               /\ \E key \in MetricKeys : metrics_list[ScoredUpTo(k)][key] = 0
    /\ (epc = "loop" /\ idx < total_rows) => ENABLED (EvalRow \/ EvalRowRaises)
    /\ (epc = "loop" /\ idx = total_rows) => ENABLED EvalFinish
    /\ epc = "done" => (idx = total_rows /\ eval_out.returned)

\* the call returned after a first row with a scoring failure and a raising
\* observer and a second row with an absent translation
C12_Witness ==
    /\ epc = "done" /\ eval_out.returned
    /\ Len(row_log) = 2
    /\ row_log[1].score_errors /\ row_log[1].raised
    /\ row_log[2].read /\ ~row_log[2].llm_returned

----------------------------------------------------------------------------
(* Further properties of TranslationService *)

\* the spellings of the marker of index i that the repair step is for: intact,
\* prefix dropped, prefix dropped and lower-cased
MarkerSpellings(i) ==
    {Marker(i),
     <<"P", "H">> \o IntToStr(i) \o <<RQ, RQ>>,
     <<"p", "h">> \o IntToStr(i) \o <<RQ, RQ>>}

\* C13: Japanese repair. On the Google path with target language Japanese, a
\* backend output that is one spelling of the marker of an extracted token is
\* restored to exactly that token, with no marker character left over.
C13_JapaneseRepair ==
    (entry = "google" /\ pc = "returned" /\ target_language = "Japanese"
        /\ ~resp1.err)
    => \A i \in 1..Len(placeholders) :
           resp1.content \in MarkerSpellings(i - 1)
           => ret = Some(placeholders[i])

\* how often the marker of index i occurs in s
MarkerCount(s, i) ==
    LET ms == FindIter(placeholder_patterns[1], s, FALSE)
    IN  Cardinality({j \in 1..Len(ms) : ms[j].group0 = Marker(i)})

\* C14: masking. For a text with N bracket spans, the extracted literals are
\* the N spans in order, each marker index 0..N-1 occurs exactly once in the
\* masked text, no span remains in it, and putting the i-th literal back for
\* the marker of index i gives the text.
C14_Masking ==
    entry # "none"
    => /\ placeholders = BracketMatches(text)
       /\ \A i \in 1..Len(placeholders) :
            MarkerCount(text_with_markers, i - 1) = 1
       /\ BracketMatches(text_with_markers) = <<>>
       /\ LET ps == MaskedPieces(text_with_markers)
          IN  Flatten([k \in 1..Len(ps) |-> PieceToken(ps[k], placeholders)])
                  = text

\* C15: a failed retry discards the first attempt. When the first request
\* succeeded with a literal missing and the retry request raised, the call
\* returns None, not the restored text of the first attempt.
C15_RetryFailureDiscards ==
    (entry = "llm" /\ pc = "returned" /\ ~resp1.err /\ FirstResultLacksLiteral
        /\ resp2.err)
    => (ret = None /\ ret # result1)

\* the retry raised after a first attempt that had restored one of two
\* literals
C15_Witness ==
    /\ entry = "llm" /\ pc = "returned" /\ resp2.err
    /\ Len(placeholders) = 2
    /\ Contains(result1.val, placeholders[1])
    /\ ~Contains(result1.val, placeholders[2])

====
